---- MODULE Spec2Model ----
(***************************************************************************)
(* Bit-level model of src/private/push_pop.rs: PushBuffer<T> / PopBuffer<T> *)
(* for the ten integer types, with push_bits, into_bytes, from_bytes and    *)
(* pop_bits.                                                                *)
(*                                                                          *)
(* A machine integer of width w is the set of the positions (0 = least      *)
(* significant) of its one bits, a subset of 0..w-1; a signed integer is    *)
(* its two's complement pattern, negative iff w-1 is in the set.  This      *)
(* keeps u128/i128 exact.                                                   *)
(***************************************************************************)
EXTENDS Integers, FiniteSets, Sequences, TLC

\* Bits the caller may push or pop beyond the width of the buffer.
MaxExtra == 8

\* Round trips are explored for messages of at most MaxShort bits and for
\* messages that fill the buffer.
MaxShort == 3

(***************************************************************************)
(* The integer types the two macros are instantiated for.                   *)
(***************************************************************************)
Types == {"u8", "u16", "u32", "u64", "u128", "i8", "i16", "i32", "i64", "i128"}

BITS(t) ==
    CASE t \in {"u8", "i8"}     -> 8
      [] t \in {"u16", "i16"}   -> 16
      [] t \in {"u32", "i32"}   -> 32
      [] t \in {"u64", "i64"}   -> 64
      [] t \in {"u128", "i128"} -> 128

Signed(t) == t \in {"i8", "i16", "i32", "i64", "i128"}

\* the `amount` values that satisfy the precondition 1 <= amount <= 8
Amounts == 1..8

(***************************************************************************)
(* Integer primitives of core, on bit patterns.                             *)
(***************************************************************************)
Pow2(n) == 2 ^ n

\* an integer literal (below 2^16) as a bit pattern
Lit(n) == {i \in 0..15 : (n \div Pow2(i)) % 2 = 1}

RECURSIVE ToNat(_)
ToNat(x) == IF x = {} THEN 0
            ELSE LET i == CHOOSE j \in x : TRUE IN Pow2(i) + ToNat(x \ {i})

\* `x as T` between integer types: truncation to the w low bits (a widening
\* cast of the non-negative values cast here changes nothing)
Cast(x, w) == x \cap (0..(w - 1))

count_ones(x) == Cardinality(x)

BitAnd(x, y) == x \cap y
BitOr(x, y) == x \cup y
BitNot(x, w) == (0..(w - 1)) \ x

\* x << k for k < w: the bits moved past the top are dropped
Shl(x, k, w) == {i + k : i \in {j \in x : j + k < w}}

\* x >> k for k < w: logical on unsigned, arithmetic (sign-filling) on signed
Shr(x, k, w, signed) ==
    {i - k : i \in {j \in x : j >= k}}
        \cup (IF signed /\ (w - 1) \in x THEN (w - k)..(w - 1) ELSE {})

\* wrapping_shl: the shift amount is taken modulo the width
wrapping_shl(x, k, w) == Shl(x, k % w, w)

\* wrapping_sub on a 16-bit operand
wrapping_sub(x, y, w) == Lit((ToNat(x) - ToNat(y) + Pow2(w)) % Pow2(w))

\* x - y where no overflow occurs (small operands)
Sub(x, y) == Lit(ToNat(x) - ToNat(y))

\* a shift that wraps the amount instead of checking it
wrapping_shr(x, k, w, signed) == Shr(x, k % w, w, signed)

\* checked_shr(k).unwrap_or(0): None, hence 0, when k >= width
checked_shr_or_0(x, k, w, signed) == IF k >= w THEN {} ELSE Shr(x, k, w, signed)

(***************************************************************************)
(* pop_bits: each returns the new bytes, the computed res, and whether the  *)
(* debug assertions hold.                                                   *)
(***************************************************************************)
pop_bits_u8(b, amount) ==
    LET orig_ones == count_ones(b)
        m     == Cast(wrapping_sub(wrapping_shl(Lit(1), amount, 16), Lit(1), 16), 8)
        res   == BitAnd(b, m)
        after == checked_shr_or_0(b, amount, 8, FALSE)
    IN  [bytes  |-> after,
         res    |-> res,
         amt_ok |-> 1 <= amount /\ amount <= 8,
         eq_ok  |-> count_ones(res) + count_ones(after) = orig_ones]

pop_bits_i8(b, amount) ==
    LET orig_ones == count_ones(b)
        m     == Cast(wrapping_sub(wrapping_shl(Lit(1), amount, 16), Lit(1), 16), 8)
        res   == Cast(BitAnd(b, m), 8)
        after == checked_shr_or_0(b, amount, 8, TRUE)
    IN  [bytes  |-> after,
         res    |-> res,
         amt_ok |-> 1 <= amount /\ amount <= 8,
         eq_ok  |-> count_ones(res) + count_ones(after) = orig_ones]

impl_pop_bits(b, amount, t) ==
    LET w          == BITS(t)
        orig_ones  == count_ones(b)
        bitmask    == Shr(Lit(255), 8 - amount, w, Signed(t))
        res        == Cast(BitAnd(b, bitmask), 8)
        shifted    == checked_shr_or_0(b, amount, w, Signed(t))
        ones_block == Sub(Shl(Lit(1), amount, w), Lit(1))
        mask       == Shl(ones_block, w - amount, w)
        after      == BitAnd(shifted, BitNot(mask, w))
    IN  [bytes  |-> after,
         res    |-> res,
         amt_ok |-> amount \in 1..8,
         eq_ok  |-> count_ones(res) + count_ones(after) = orig_ones]

\* the impl of PopBits the compiler selects for PopBuffer<t>
pop_bits(b, amount, t) ==
    CASE t = "u8" -> pop_bits_u8(b, amount)
      [] t = "i8" -> pop_bits_i8(b, amount)
      [] OTHER    -> impl_pop_bits(b, amount, t)

(***************************************************************************)
(* push_bits                                                                *)
(***************************************************************************)
push_bitmask(amount) == Shr(Lit(255), 8 - amount, 8, FALSE)

\* the assignment with bits left unmasked
push_bytes_unmasked(b, amount, bits, t) ==
    BitOr(wrapping_shl(b, amount, BITS(t)), Cast(bits, BITS(t)))

\* *bytes = bytes.wrapping_shl(amount) | ((bits & bitmask) as $type)
push_bytes(b, amount, bits, t) ==
    BitOr(wrapping_shl(b, amount, BITS(t)),
          Cast(BitAnd(bits, push_bitmask(amount)), BITS(t)))

push_bits(b, amount, bits, t) ==
    LET orig_ones == count_ones(b)
        after     == push_bytes(b, amount, bits, t)
    IN  [bytes  |-> after,
         amt_ok |-> 1 <= amount /\ amount <= 8,
         eq_ok  |-> count_ones(BitAnd(bits, push_bitmask(amount))) + orig_ones
                        = count_ones(after)]

\* <T as Default>::default()
default == {}

(***************************************************************************)
(* The caller.  It holds a message S of len bits (ones: the positions of    *)
(* its one bits, position len-1 being the first bit pushed) and pushes it   *)
(* most significant chunk first.                                            *)
(***************************************************************************)
PatternNames == {"msb", "low", "alt"}

Pattern(p, len) ==
    CASE p = "msb"   -> {len - 1} \cap (0..(len - 1))
      [] p = "low"   -> 0..(len - 9)
      [] p = "alt"   -> {i \in 0..(len - 1) : i % 2 = 1}

Message(p, len) == [len |-> len, ones |-> Pattern(p, len)]

NoMessage == [len |-> 0, ones |-> {}]

\* the next a bits of S when n bits have been pushed, as a byte
Chunk(S, n, a) ==
    {i - (S.len - n - a) : i \in {j \in S.ones : j >= S.len - n - a /\ j < S.len - n}}

\* what the caller may leave in the bits of the argument above `a`
Junk(a) == {{}, a..7}

\* the raw values a PopBuffer is built from
InitValues(t) ==
    IF BITS(t) = 8 THEN SUBSET {1, 2, 4, 6, 7}
    ELSE {Pattern(p, BITS(t)) : p \in PatternNames}
            \cup {BitNot(Pattern(p, BITS(t)), BITS(t)) : p \in {"low", "alt"}}

RTLens(t) == {n \in 1..BITS(t) : n <= MaxShort \/ n = BITS(t)}

VARIABLES
    ty,       \* the type parameter T of the buffers
    debug,    \* cfg!(debug_assertions)
    pc,       \* "push": PushBuffer alive; "raw": a raw T in hand; "pop": PopBuffer alive
    bytes,    \* the buffer's field (or the raw value when pc = "raw")
    failed,   \* a debug assertion failed: the thread panicked
    S,        \* the message the caller pushes
    npushed,  \* bits pushed so far
    orig,     \* the value given to from_bytes
    popped,   \* bits popped so far
    got,      \* the bytes returned by pop_bits, the k-th placed at the bits popped before it
    amount,   \* the amount of the last push_bits / pop_bits call on the live buffer (0: none yet)
    bits,     \* the bits argument of the last push_bits call
    res,      \* res of the last pop_bits call
    prev      \* bytes before the last call

vars == <<ty, debug, pc, bytes, failed, S, npushed, orig, popped, got, amount, bits, res, prev>>

Common ==
    /\ ty \in Types
    /\ debug \in BOOLEAN
    /\ failed = FALSE
    /\ npushed = 0
    /\ orig = {}
    /\ popped = 0
    /\ got = {}
    /\ amount = 0
    /\ bits = {}
    /\ res = {}
    /\ prev = {}

\* PushBuffer::default(), with a message long enough to overflow the buffer
InitPush ==
    /\ Common
    /\ pc = "push"
    /\ bytes = default
    /\ S \in {Message(p, BITS(ty) + MaxExtra) : p \in PatternNames}

\* a raw value about to be given to PopBuffer::from_bytes
InitPop ==
    /\ Common
    /\ pc = "raw"
    /\ bytes \in InitValues(ty)
    /\ S = NoMessage

\* PushBuffer::default(), with a message that fits the buffer
InitRT ==
    /\ Common
    /\ pc = "push"
    /\ bytes = default
    /\ S \in {Message(p, n) : p \in PatternNames, n \in RTLens(ty)}

Push ==
    /\ pc = "push" /\ ~failed
    /\ \E a \in Amounts : \E junk \in Junk(a) :
        /\ npushed + a <= S.len
        /\ LET arg == Chunk(S, npushed, a) \cup junk
               r   == push_bits(bytes, a, arg, ty)
           IN  /\ bytes' = r.bytes
               /\ failed' = (debug /\ ~(r.amt_ok /\ r.eq_ok))
               /\ amount' = a
               /\ bits' = arg
               /\ prev' = bytes
               /\ npushed' = npushed + a
    /\ UNCHANGED <<ty, debug, pc, S, orig, popped, got, res>>

\* PushBuffer::into_bytes: the buffer is consumed, its value is in hand
IntoBytes ==
    /\ pc = "push" /\ ~failed
    /\ npushed > 0
    /\ pc' = "raw"
    /\ amount' = 0
    /\ bits' = {}
    /\ prev' = {}
    /\ UNCHANGED <<ty, debug, bytes, failed, S, npushed, orig, popped, got, res>>

\* PopBuffer::from_bytes
FromBytes ==
    /\ pc = "raw"
    /\ pc' = "pop"
    /\ orig' = bytes
    /\ amount' = 0
    /\ prev' = bytes
    /\ UNCHANGED <<ty, debug, bytes, failed, S, npushed, popped, got, bits, res>>

\* the bits the caller takes out of a PopBuffer
PopLimit == IF S.len > 0 THEN S.len ELSE BITS(ty) + MaxExtra

Pop ==
    /\ pc = "pop" /\ ~failed
    /\ \E a \in Amounts :
        /\ popped + a <= PopLimit
        /\ LET r == pop_bits(bytes, a, ty)
           IN  /\ bytes' = r.bytes
               /\ res' = r.res
               /\ failed' = (debug /\ ~(r.amt_ok /\ r.eq_ok))
               /\ got' = IF failed' THEN got ELSE got \cup {i + popped : i \in r.res}
               /\ amount' = a
               /\ prev' = bytes
               /\ popped' = popped + a
    /\ UNCHANGED <<ty, debug, pc, S, npushed, orig, bits>>

NextPush == Push \/ IntoBytes
NextPop == FromBytes \/ Pop
NextRT == Push \/ (npushed = S.len /\ IntoBytes) \/ FromBytes \/ Pop

SpecPush == InitPush /\ [][NextPush]_vars
SpecPop == InitPop /\ [][NextPop]_vars
SpecRT == InitRT /\ [][NextRT]_vars

(***************************************************************************)
(* What the operations are expected to compute, stated on bit patterns      *)
(* independently of the code above.                                         *)
(***************************************************************************)
W == BITS(ty)

\* the n low bits of x
Low(x, n) == {i \in x : i < n}

\* the k top bits of a w-bit x
Top(x, k, w) == {i \in x : i >= w - k}

\* the n bits of x from position lo upwards, as a number
Window(x, lo, n) == {i - lo : i \in {j \in x : j >= lo /\ j < lo + n}}

\* (x << k) mod 2^w and the zero-filling x >> k
LogicalShl(x, k, w) == {i + k : i \in {j \in x : j + k < w}}
LogicalShr(x, k) == {i - k : i \in {j \in x : j >= k}}

\* the bits of S pushed so far, as a number of npushed bits
Pushed == Window(S.ones, S.len - npushed, npushed)

AfterPush == pc = "push" /\ amount > 0
AfterPop == pc = "pop" /\ amount > 0

\* C1: a message of n <= W bits pushed in any chunking, taken with
\* into_bytes, given to from_bytes and popped in any chunking comes back:
\* no call aborts and the n popped bits spell S.
C1_RoundTrip ==
    /\ ~failed
    /\ (pc = "pop" /\ popped = S.len) => got = S.ones

\* C2: the k-th pop_bits call returns the bits of the initial value at
\* positions [a1+..+a(k-1), a1+..+ak), so the returned groups reconstruct
\* its low popped bits (amounts summing to at most W).
C2_PopReturnsBits ==
    (AfterPop /\ popped <= W) =>
        /\ ~failed
        /\ res = Window(orig, popped - amount, amount)
        /\ got = Low(orig, popped)

\* C3: push_bits(amount, bits) leaves ((b << amount) mod 2^W) | (bits mod
\* 2^amount) in the buffer.
C3_PushEffect ==
    AfterPush => bytes = LogicalShl(prev, amount, W) \cup Low(bits, amount)

\* C4: on a signed buffer built from a negative value, every pop_bits leaves
\* the topmost amount bits zero: the buffer is the logical right shift of
\* what it held.
C4_ZeroFill ==
    (AfterPop /\ Signed(ty) /\ (W - 1) \in orig) =>
        /\ Top(bytes, amount, W) = {}
        /\ bytes = LogicalShr(prev, amount)

\* C5: after more than W bits were pushed, into_bytes returns the most
\* recent W pushed bits.
C5_OverflowDiscard ==
    (pc = "raw" /\ npushed > W) => bytes = Low(Pushed, W)

\* C6: pop_bits conserves the set bits: popcount(res) + popcount(bytes after)
\* = popcount(bytes before), so its closing debug_assert_eq never fails.
C6_PopConservesOnes ==
    AfterPop =>
        /\ count_ones(res) + count_ones(bytes) = count_ones(prev)
        /\ ~failed

\* C7: push_bits ignores the bits of its argument at positions >= amount:
\* any byte that agrees with the argument on the low amount bits leaves the
\* same buffer and the same outcome of the assertions.
C7_PushMasksHighBits ==
    AfterPush =>
        \A h \in SUBSET (amount..7) :
            LET r == push_bits(prev, amount, Low(bits, amount) \cup h, ty)
            IN  /\ r.bytes = bytes
                /\ (debug /\ ~(r.amt_ok /\ r.eq_ok)) = failed

C7_Witness ==
    /\ AfterPush /\ ~failed
    /\ amount = 3 /\ bits = {1, 3, 4, 5, 6, 7}
    /\ prev # {}
    /\ bytes = LogicalShl(prev, 3, W) \cup {1}

\* C8: on PopBuffer<u8> and PopBuffer<i8>, pop_bits(8) returns the whole
\* 8-bit pattern the buffer held and leaves it zero, with no assertion
\* failing.
C8_FullWidthPop ==
    (AfterPop /\ W = 8 /\ amount = 8) =>
        /\ res = prev
        /\ bytes = {}
        /\ ~failed

C8_Witness ==
    /\ AfterPop /\ ty = "i8" /\ debug /\ amount = 8
    /\ 7 \in prev
    /\ res = prev /\ bytes = {} /\ ~failed

C10_Exhaustion ==
    (pc = "pop" /\ popped >= W) =>
        /\ bytes = {}
        /\ (amount > 0 /\ popped - amount >= W) => res = {}

====
